---- MODULE Spec2Model ----
(***************************************************************************)
(* Model of the vso-agent execution-tracking core:                         *)
(*   - PagingLogger   (logging.ts, src/unnamed/part_000)                   *)
(*   - Context, ExecutionContext, JobContext (src/src/agent/context.ts)    *)
(***************************************************************************)
EXTENDS Integers, Sequences, FiniteSets, TLC

VARIABLES
    logger,     \* the PagingLogger object
    writes,     \* write()/writeError() calls made on it so far
    ends,       \* end() calls made on it so far
    lastCall,   \* the public method called last
    fbCalls,    \* the calls made on the feedback channel, in order
    finishCalls,\* one record per finishJob call: its closure and progress
    now,        \* the clock read by new Date(): it ticks at every method call
    jobOps,     \* JobContext methods called so far
    jobTrace,   \* those calls in order, each with the span of fbCalls it made
    ctx,        \* a Context object and its writers
    env,        \* os.EOL of the platform and the message the caller logs
    ctxCall     \* the Context method called last and what preceded it

loggerVars == <<logger, writes, ends, lastCall>>
jobVars == <<fbCalls, finishCalls, now, jobOps, jobTrace>>
ctxVars == <<ctx, env, ctxCall>>
vars == <<logger, writes, ends, lastCall, fbCalls, finishCalls, now, jobOps,
          jobTrace, ctx, env, ctxCall>>

(***************************************************************************)
(* Bounds                                                                  *)
(***************************************************************************)
\* number of write()/writeError() calls made on one PagingLogger
MaxWrites == 60
\* number of end() calls made on one PagingLogger
MaxEnds == 2
\* number of fs calls issued on a descriptor that was already closed
MaxStaleOps == 2
\* number of JobContext methods called on one job context
MaxJobOps == 3
\* number of finishJob calls among them
MaxFinishCalls == 2
\* number of methods called on one Context
MaxCtxCalls == 2
\* number of writers registered with one Context
MaxWriters == 2
\* number of lines logged through one job context
MaxExecWrites == 27
\* number of finishJob calls on a job context that also logs
MaxExecFinish == 1
\* number of logging calls on a job context after its first finishJob call
MaxLateCalls == 0
\* number of calls a job context's logger issues on a closed descriptor
MaxExecStale == 1

(***************************************************************************)
(* PagingLogger                                                            *)
(***************************************************************************)
PAGE_SIZE == 25

\* The fields of a PagingLogger.  _fd is "unset" until the first openSync;
\* closeSync never resets the field, so after a close the number it holds
\* names a closed descriptor ("stale").  The remaining fields are the files
\* and notifications the logger has produced:
\*   metadataFiles  writeFileSync(logPath) calls
\*   pageLines[n]   lines appended to the file of page n (one entry per openSync)
\*   pageClosed[n]  the file of page n has been closed
\*   closeCalls[n]  closeSync calls issued on the descriptor of page n
\*   staleWrites    writeSync calls issued on the descriptor of a closed page
\*   foreignOps     fs calls on a stale descriptor that hit another open file
\*   emitted        'pageComplete' notifications, in order
\*   threw          the last public call ended in an exception
NewLogger ==
    [ _fd           |-> "unset",
      created       |-> FALSE,
      pageCount     |-> 0,
      lineCount     |-> 0,
      metadataFiles |-> 0,
      pageLines     |-> << >>,
      pageClosed    |-> << >>,
      closeCalls    |-> << >>,
      staleWrites   |-> 0,
      foreignOps    |-> 0,
      emitted       |-> << >>,
      threw         |-> FALSE ]

\* info record carried by a 'pageComplete' notification; the page path is
\* pageFolder/<pagesId>_<pageCount>.page, determined by the page number
\* (lines is not a field of the notification: it records how many lines the
\* page file holds at the moment the notification is emitted)
pageInfo(L) ==
    [ pageNumber |-> L.pageCount,
      pagePath   |-> L.pageCount,
      lines      |-> IF L.pageCount \in DOMAIN L.pageLines
                     THEN L.pageLines[L.pageCount] ELSE 0 ]

\* if (this._fd) -- a descriptor number, once assigned, is truthy
fdSet(L) == L._fd # "unset"

\* endPage with the guard dropped: closes and notifies unconditionally
endPageUnguarded(L, reused) ==
    [L EXCEPT !.created = FALSE,
              !.emitted = Append(@, pageInfo(L))]

\* endPage(): closeSync(this._fd), created = false, emit('pageComplete').
\* On a stale descriptor closeSync either throws EBADF or, when the number
\* has been handed out again by the OS (reused), closes that other file.
endPage(L, reused) ==
    IF ~fdSet(L) THEN L
    ELSE IF L._fd = "open"
         THEN [L EXCEPT !._fd = "stale",
                        !.pageClosed[L.pageCount] = TRUE,
                        !.closeCalls[L.pageCount] = @ + 1,
                        !.created = FALSE,
                        !.emitted = Append(@, pageInfo(L))]
         ELSE IF reused
              THEN [L EXCEPT !.closeCalls[L.pageCount] = @ + 1,
                             !.foreignOps = @ + 1,
                             !.created = FALSE,
                             !.emitted = Append(@, pageInfo(L))]
              ELSE [L EXCEPT !.closeCalls[L.pageCount] = @ + 1,
                             !.threw = TRUE]

\* newPage(): endPage(), ++pageCount, openSync, created = true, lineCount = 0
newPage(L, reused) ==
    LET e == endPage(L, reused) IN
    IF e.threw THEN e
    ELSE [e EXCEPT !.pageCount = @ + 1,
                   !.pageLines = Append(@, 0),
                   !.pageClosed = Append(@, FALSE),
                   !.closeCalls = Append(@, 0),
                   !._fd = "open",
                   !.created = TRUE,
                   !.lineCount = 0]

\* create(): write the metadata sidecar, newPage(), created = true
create(L) ==
    LET m == [L EXCEPT !.metadataFiles = @ + 1]
        n == newPage(m, FALSE)
    IN  [n EXCEPT !.created = TRUE]

\* rotation test of write(): ++this.lineCount >= PAGE_SIZE
pageFullStrict(count) == count > PAGE_SIZE

pageFull(count) == count >= PAGE_SIZE

\* fs.writeSync(this._fd, line)
writeSync(L, reused) ==
    IF L._fd = "open"
    THEN [L EXCEPT !.pageLines[L.pageCount] = @ + 1]
    ELSE IF reused
         THEN [L EXCEPT !.staleWrites = @ + 1, !.foreignOps = @ + 1]
         ELSE [L EXCEPT !.staleWrites = @ + 1, !.threw = TRUE]

\* write(line): lazy create, writeSync, count the line, rotate at PAGE_SIZE
write(L, reusedW, reusedC) ==
    LET c == IF ~fdSet(L) THEN create(L) ELSE L
        w == writeSync(c, reusedW)
    IN  IF w.threw THEN w
        ELSE LET i == [w EXCEPT !.lineCount = @ + 1] IN
             IF pageFull(i.lineCount) THEN newPage(i, reusedC) ELSE i

\* writeError(line): this.write(line)
writeError(L, reusedW, reusedC) == write(L, reusedW, reusedC)

\* end(): this.endPage()
end(L, reused) == endPage(L, reused)

\* fs calls a public call issued on a descriptor that was already closed
staleOps(L) ==
    L.staleWrites
      + (IF L.closeCalls = << >> THEN 0
         ELSE LET RECURSIVE extra(_)
                  extra(n) == IF n = 0 THEN 0
                              ELSE extra(n - 1)
                                   + (IF L.closeCalls[n] > 1
                                      THEN L.closeCalls[n] - 1 ELSE 0)
              IN extra(Len(L.closeCalls)))

enter(L) == [L EXCEPT !.threw = FALSE]

\* a step of the logger leaves the job context and the context alone
LoggerOnly == UNCHANGED <<jobVars, ctxVars>>

LoggerInit ==
    /\ logger = NewLogger
    /\ writes = 0
    /\ ends = 0
    /\ lastCall = "none"

Write ==
    /\ writes < MaxWrites
    /\ \E reusedW, reusedC \in BOOLEAN :
         /\ logger' = write(enter(logger), reusedW, reusedC)
         /\ staleOps(logger') <= MaxStaleOps
    /\ writes' = writes + 1
    /\ lastCall' = "write"
    /\ UNCHANGED ends
    /\ LoggerOnly

WriteError ==
    /\ writes < MaxWrites
    /\ \E reusedW, reusedC \in BOOLEAN :
         /\ logger' = writeError(enter(logger), reusedW, reusedC)
         /\ staleOps(logger') <= MaxStaleOps
    /\ writes' = writes + 1
    /\ lastCall' = "writeError"
    /\ UNCHANGED ends
    /\ LoggerOnly

End ==
    /\ ends < MaxEnds
    /\ \E reused \in BOOLEAN :
         /\ logger' = end(enter(logger), reused)
         /\ staleOps(logger') <= MaxStaleOps
    /\ ends' = ends + 1
    /\ lastCall' = "end"
    /\ UNCHANGED writes
    /\ LoggerOnly

LoggerNext == Write \/ WriteError \/ End

(***************************************************************************)
(* JobContext                                                              *)
(***************************************************************************)
LOCK_RENEWAL_MS == 60000

\* job.jobId, job.jobName and the ids and names of the tasks of the job
jobId == "job"
jobName == "Job"
Tasks == {"t1", "t2"}
Names == {"Build"}

\* ifm.TaskResult values a caller passes; the code names only Failed
Failed == "Failed"
Results == {"Succeeded", Failed}

\* ifm.TimelineRecordState
Pending == "Pending"
InProgress == "InProgress"
Completed == "Completed"

\* one call feedback.<op>(id, val)
fb(op, id, val) == [op |-> op, id |-> id, val |-> val]

\* setJobInProgress()
setJobInProgress(F, t) ==
    F \o << fb("setCurrentOperation", jobId, "Starting"),
            fb("setName", jobId, jobName),
            fb("setStartTime", jobId, t),
            fb("setState", jobId, InProgress),
            fb("setType", jobId, "Job"),
            fb("setWorkerName", jobId, "agent") >>

\* registerPendingTask that registers the task as already in progress
registerAsInProgress(F, id, name) ==
    F \o << fb("setCurrentOperation", id, "Initializing"),
            fb("setParentId", id, jobId),
            fb("setName", id, name),
            fb("setState", id, InProgress),
            fb("setType", id, "Task"),
            fb("setWorkerName", id, "agent") >>

\* registerPendingTask(id, name)
registerPendingTask(F, id, name) ==
    F \o << fb("setCurrentOperation", id, "Initializing"),
            fb("setParentId", id, jobId),
            fb("setName", id, name),
            fb("setState", id, Pending),
            fb("setType", id, "Task"),
            fb("setWorkerName", id, "agent") >>

\* setTaskStarted that also moves the job record to InProgress
setTaskStartedJobState(F, id, name, t) ==
    F \o << fb("setCurrentOperation", jobId, <<"Starting ", name>>),
            fb("setState", jobId, InProgress),
            fb("setCurrentOperation", id, <<"Starting ", name>>),
            fb("setStartTime", id, t),
            fb("setState", id, InProgress) >>

\* setTaskStarted(id, name)
setTaskStarted(F, id, name, t) ==
    F \o << fb("setCurrentOperation", jobId, <<"Starting ", name>>),
            fb("setCurrentOperation", id, <<"Starting ", name>>),
            fb("setStartTime", id, t),
            fb("setState", id, InProgress) >>

\* setTaskResult(id, name, result)
setTaskResult(F, id, name, result, t) ==
    F \o << fb("setCurrentOperation", id, <<"Completed ", name>>),
            fb("setState", id, Completed),
            fb("setFinishTime", id, t),
            fb("setResult", id, result) >>

\* the drain callback's override left out: the result is passed through
keepResult(err, result) == result

\* if (err) { result = ifm.TaskResult.Failed; }
finalResult(err, result) == IF err THEN Failed ELSE result

\* the body of the drain callback of call k: build the job request and send it
sendJobRequest(F, k, err, result, t) ==
    Append(F, fb("updateJobRequest", jobId,
                 [call |-> k, finishTime |-> t,
                  result |-> finalResult(err, result)]))

\* finishJob that sends the job request without waiting for the drain
finishJobNoWait(F, k, result, t) ==
    sendJobRequest(
        Append(setTaskResult(F, jobId, jobName, result, t), fb("drain", jobId, k)),
        k, FALSE, result, t)

\* finishJob(result, callback) up to its return: mark the job record, then
\* ask the feedback channel to drain; k identifies the call
finishJob(F, k, result, t) ==
    Append(setTaskResult(F, jobId, jobName, result, t), fb("drain", jobId, k))

JobInit ==
    /\ fbCalls = << >>
    /\ finishCalls = << >>
    /\ now = 0
    /\ jobOps = 0
    /\ jobTrace = << >>

\* a step of the job context leaves the logger and the context alone
JobOnly == UNCHANGED <<loggerVars, ctxVars>>

\* a method of the job context is called: method(id, name, result)
Called(method, id, name, result) ==
    /\ JobOnly
    /\ jobOps < MaxJobOps
    /\ jobOps' = jobOps + 1
    /\ now' = now + 1
    /\ jobTrace' = Append(jobTrace,
                          [ method |-> method, id |-> id, name |-> name,
                            result |-> result,
                            from |-> Len(fbCalls), to |-> Len(fbCalls'),
                            logCalls |-> writes + ends,
                            emitted |-> Len(logger.emitted),
                            pageOpen |-> logger._fd = "open",
                            openLines |-> IF logger._fd = "open"
                                          THEN logger.pageLines[logger.pageCount]
                                          ELSE 0 ])

SetJobInProgress ==
    /\ fbCalls' = setJobInProgress(fbCalls, now)
    /\ Called("setJobInProgress", jobId, jobName, "none")
    /\ UNCHANGED finishCalls

RegisterPendingTask ==
    /\ \E id \in Tasks, name \in Names :
         /\ fbCalls' = registerPendingTask(fbCalls, id, name)
         /\ Called("registerPendingTask", id, name, "none")
    /\ UNCHANGED finishCalls

SetTaskStarted ==
    /\ \E id \in Tasks, name \in Names :
         /\ fbCalls' = setTaskStarted(fbCalls, id, name, now)
         /\ Called("setTaskStarted", id, name, "none")
    /\ UNCHANGED finishCalls

SetTaskResult ==
    /\ \E id \in Tasks, name \in Names, result \in Results :
         /\ fbCalls' = setTaskResult(fbCalls, id, name, result, now)
         /\ Called("setTaskResult", id, name, result)
    /\ UNCHANGED finishCalls

FinishJob ==
    /\ Len(finishCalls) < MaxFinishCalls
    /\ \E result \in Results :
         /\ fbCalls' = finishJob(fbCalls, Len(finishCalls) + 1, result, now)
         /\ Called("finishJob", jobId, jobName, result)
         /\ finishCalls' = Append(finishCalls,
                                  [ passed   |-> result,
                                    pc       |-> "draining",
                                    drainErr |-> FALSE,
                                    callbacks |-> << >> ])

\* the feedback channel completes the drain of call k, with or without error,
\* and the drain callback runs
DrainComplete ==
    \E k \in DOMAIN finishCalls, err \in BOOLEAN :
        /\ finishCalls[k].pc = "draining"
        /\ fbCalls' = sendJobRequest(fbCalls, k, err, finishCalls[k].passed, now)
        /\ finishCalls' = [finishCalls EXCEPT ![k].pc = "updating",
                                              ![k].drainErr = err]
        /\ UNCHANGED <<jobOps, now, jobTrace>>
        /\ JobOnly

\* the feedback channel completes updateJobRequest of call k: it invokes the
\* callback that was passed to finishJob
UpdateComplete ==
    \E k \in DOMAIN finishCalls, err \in BOOLEAN :
        /\ finishCalls[k].pc = "updating"
        /\ finishCalls' = [finishCalls EXCEPT ![k].pc = "done",
                                              ![k].callbacks = Append(@, err)]
        /\ UNCHANGED <<fbCalls, jobOps, now, jobTrace>>
        /\ JobOnly

JobNext ==
    \/ SetJobInProgress
    \/ RegisterPendingTask
    \/ SetTaskStarted
    \/ SetTaskResult
    \/ FinishJob
    \/ DrainComplete
    \/ UpdateComplete

(***************************************************************************)
(* Context                                                                 *)
(***************************************************************************)
\* cm.DiagnosticLevel
Error == 1
Warning == 2
Status == 3
Info == 4
Verbose == 5
Levels == {Error, Warning, Status, Info, Verbose}

\* Strings are sequences of characters; CR and LF are the line-ending
\* characters, TS stands for the text of new Date().toISOString().
CR == "\r"
LF == "\n"
TS == "<ISO-8601>"

\* os.EOL: "\n" on POSIX, "\r\n" on Windows
EOLs == { <<LF>>, <<CR, LF>> }

\* the textual messages a caller logs
Texts ==
    { << >>, <<"a">>, <<"a", LF, "b">>, <<"a", CR, LF, "b">>,
      <<"a", CR, "b">>, <<"a", LF, LF>> }

\* a message argument that is not a string, and what string concatenation
\* makes of it
\* (circular: an object that refers to itself, which JSON.stringify rejects
\* with a TypeError)
NonString == [isString |-> FALSE, chars |-> << >>, circular |-> FALSE]
Circular == [isString |-> FALSE, chars |-> << >>, circular |-> TRUE]
Str(chars) == [isString |-> TRUE, chars |-> chars, circular |-> FALSE]
coerce(message) ==
    IF message.isString THEN message.chars ELSE <<"[object Object]">>

\* the writers a Context is constructed with: their thresholds, in
\* non-decreasing order (forEach treats every writer alike)
WriterLevels ==
    { lv \in UNION { [1..n -> Levels] : n \in 0..MaxWriters } :
        \A i, j \in DOMAIN lv : i < j => lv[i] <= lv[j] }

\* new Context(writers): hasErrors = false; each writer with what it has
\* received (calls), the 'message' events emitted (messages), the
\* console.error lines printed (stderr) and whether the last call on the
\* context ended in an exception (threw)
NewContext(lv) ==
    [ writers   |-> [i \in DOMAIN lv |-> [level |-> lv[i], calls |-> << >>]],
      hasErrors |-> FALSE,
      messages  |-> << >>,
      stderr    |-> 0,
      threw     |-> FALSE ]

\* String.prototype.split(sep) for a non-empty separator
RECURSIVE splitFrom(_, _, _)
splitFrom(rest, cur, sep) ==
    IF rest = << >> THEN << cur >>
    ELSE IF Len(rest) >= Len(sep) /\ SubSeq(rest, 1, Len(sep)) = sep
         THEN << cur >> \o splitFrom(SubSeq(rest, Len(sep) + 1, Len(rest)), << >>, sep)
         ELSE splitFrom(Tail(rest), Append(cur, Head(rest)), sep)

\* split on "\n" whatever the platform
splitOnLF(str, sep) == splitFrom(str, << >>, <<LF>>)

split(str, sep) == splitFrom(str, << >>, sep)

\* lines[i].replace(/(\r\n|\n|\r)/gm, '')
stripEOL(line) == SelectSeq(line, LAMBDA c : c \notin {CR, LF})

\* var prefix = tag ? '[' + tag + '] ' : ''
prefixOf(tag) == IF tag # "null" THEN <<"[", tag, "] ">> ELSE << >>

\* writer.write(line) / writer.writeError(line) / writer.end() on writer i
call(C, i, method, line) ==
    [C EXCEPT !.writers[i].calls = Append(@, [method |-> method, line |-> line])]

\* the threshold test of _write with > for >=
acceptsStrictly(writerLevel, level) == writerLevel > level

\* if (writer.level >= level)
accepts(writerLevel, level) == writerLevel >= level

\* this.writers.forEach(...) of _write for one log line
RECURSIVE deliver(_, _, _, _)
deliver(C, i, level, logLine) ==
    IF i > Len(C.writers) THEN C
    ELSE deliver(IF accepts(C.writers[i].level, level)
                 THEN call(C, i, IF level = Error THEN "writeError" ELSE "write",
                           logLine)
                 ELSE C,
                 i + 1, level, logLine)

\* the body of the loop of _write over lines[i..]
RECURSIVE writeLines(_, _, _, _, _, _)
writeLines(C, lines, i, level, tag, eol) ==
    IF i > Len(lines) THEN C
    ELSE LET line == stripEOL(lines[i])
             prefix == prefixOf(tag)
             dateTime == <<TS, ": ">>
             e == [C EXCEPT !.messages = Append(@, prefix \o line)]
             logLine == prefix \o dateTime \o line \o eol
         IN  writeLines(deliver(e, 1, level, logLine), lines, i + 1, level, tag, eol)

\* _write that keeps hasErrors in step with the level of the last message
_writeTracking(C, level, tag, message, eol) ==
    IF ~message.isString
    THEN IF message.circular
         THEN [C EXCEPT !.stderr = @ + 1, !.threw = TRUE]
         ELSE [C EXCEPT !.stderr = @ + 2]
    ELSE writeLines([C EXCEPT !.hasErrors = (level = Error)],
                    split(message.chars, eol), 1, level, tag, eol)

\* _write(level, tag, message): a message that is not a string is reported
\* by console.error('non-string write: ...') and
\* console.error(JSON.stringify(message, null, 2)) and dropped;
\* JSON.stringify throws on a circular object
_write(C, level, tag, message, eol) ==
    IF ~message.isString
    THEN IF message.circular
         THEN [C EXCEPT !.stderr = @ + 1, !.threw = TRUE]
         ELSE [C EXCEPT !.stderr = @ + 2]
    ELSE writeLines(C, split(message.chars, eol), 1, level, tag, eol)

\* output(line)
RECURSIVE output(_, _, _)
output(C, i, line) ==
    IF i > Len(C.writers) THEN C
    ELSE output(call(C, i, "write", line), i + 1, line)

\* error(message)
error(C, message, eol) ==
    _write([C EXCEPT !.hasErrors = TRUE], Error, "Error", message, eol)

\* warning(message)
warning(C, message, eol) == _write(C, Warning, "Warning", message, eol)

\* info(message)
info(C, message, eol) == _write(C, Info, "null", message, eol)

\* verbose(message)
verbose(C, message, eol) == _write(C, Verbose, "null", message, eol)

\* status(message)
status(C, message, eol) == _write(C, Status, "null", message, eol)

\* the forEach of heading and section: one _write of the decorated message
\* per writer whose threshold is at least Status
RECURSIVE decorated(_, _, _, _)
decorated(C, i, text, eol) ==
    IF i > Len(C.writers) THEN C
    ELSE decorated(IF C.writers[i].level >= Status
                   THEN _write(C, Info, "null", Str(text), eol)
                   ELSE C,
                   i + 1, text, eol)

\* heading(message)
heading(C, message, eol) ==
    LET delim == <<"----------------------------------------------------------------------">> \o eol
    IN  decorated(C, 1, delim \o coerce(message) \o delim, eol)

\* section(message)
section(C, message, eol) ==
    decorated(C, 1, <<" ">> \o eol \o <<"+++++++">> \o coerce(message) \o <<" ">> \o eol, eol)

\* end()
RECURSIVE endWriters(_, _)
endWriters(C, i) ==
    IF i > Len(C.writers) THEN C
    ELSE endWriters(call(C, i, "end", << >>), i + 1)

\* a step of the context leaves the logger and the job context alone
CtxOnly == UNCHANGED <<loggerVars, jobVars>>

\* a Context nothing is called on: no writers
CtxIdle ==
    /\ ctx = NewContext(<< >>)
    /\ env = [EOL |-> <<LF>>, text |-> << >>]
    /\ ctxCall = [method |-> "none", level |-> 0, message |-> NonString,
                  before |-> ctx, n |-> 0]

CtxInit ==
    /\ \E lv \in WriterLevels : ctx = NewContext(lv)
    /\ \E eol \in EOLs, text \in Texts : env = [EOL |-> eol, text |-> text]
    /\ ctxCall = [method |-> "none", level |-> 0, message |-> NonString,
                  before |-> ctx, n |-> 0]

\* the message argument of a call: the caller's text, or a value that is
\* not a string
Arguments == { Str(env.text), NonString, Circular }

\* entry of a public method of the context
entered(C) == [C EXCEPT !.threw = FALSE]

CtxCalled(method, level, message) ==
    /\ CtxOnly
    /\ ctxCall.n < MaxCtxCalls
    /\ ctxCall' = [method |-> method, level |-> level, message |-> message,
                   before |-> ctx, n |-> ctxCall.n + 1]
    /\ UNCHANGED env

LogError ==
    \E m \in Arguments :
        CtxCalled("error", Error, m) /\ ctx' = error(entered(ctx), m, env.EOL)

LogWarning ==
    \E m \in Arguments :
        CtxCalled("warning", Warning, m) /\ ctx' = warning(entered(ctx), m, env.EOL)

LogStatus ==
    \E m \in Arguments :
        CtxCalled("status", Status, m) /\ ctx' = status(entered(ctx), m, env.EOL)

LogInfo ==
    \E m \in Arguments :
        CtxCalled("info", Info, m) /\ ctx' = info(entered(ctx), m, env.EOL)

LogVerbose ==
    \E m \in Arguments :
        CtxCalled("verbose", Verbose, m) /\ ctx' = verbose(entered(ctx), m, env.EOL)

Heading ==
    \E m \in {Str(env.text), NonString} :
        CtxCalled("heading", Info, m) /\ ctx' = heading(entered(ctx), m, env.EOL)

Section ==
    \E m \in {Str(env.text), NonString} :
        CtxCalled("section", Info, m) /\ ctx' = section(entered(ctx), m, env.EOL)

Output ==
    /\ CtxCalled("output", 0, Str(env.text))
    /\ ctx' = output(entered(ctx), 1, env.text)

CtxEnd ==
    /\ CtxCalled("end", 0, NonString)
    /\ ctx' = endWriters(entered(ctx), 1)

CtxNext ==
    \/ LogError
    \/ LogWarning
    \/ LogStatus
    \/ LogInfo
    \/ LogVerbose
    \/ Heading
    \/ Section
    \/ Output
    \/ CtxEnd

(***************************************************************************)
(* ExecutionContext: a Context whose only writer is its own PagingLogger,  *)
(* with the logger's 'pageComplete' notifications forwarded to feedback    *)
(***************************************************************************)
\* a listener that serves the first notification only
onPageCompleteOnce(F, page) ==
    IF \E i \in DOMAIN F : F[i].op = "queueLogPage" THEN F
    ELSE Append(F, fb("queueLogPage", "log", page))

\* logger.on('pageComplete', function (info) { feedback.queueLogPage(info); })
onPageComplete(F, page) == Append(F, fb("queueLogPage", "log", page))

\* emit with no listener registered
emitUnheard(F, pages) == F

\* the emit('pageComplete', info) calls of one logger call, each running the
\* listener before the emitting call goes on
RECURSIVE emitPageComplete(_, _)
emitPageComplete(F, pages) ==
    IF pages = << >> THEN F
    ELSE emitPageComplete(onPageComplete(F, Head(pages)), Tail(pages))

\* the notifications logger call L0 -> L1 emitted
newlyEmitted(L0, L1) ==
    SubSeq(L1.emitted, Len(L0.emitted) + 1, Len(L1.emitted))

\* a logging step of the execution context leaves the job status calls alone
ExecOnly == UNCHANGED <<finishCalls, now, jobOps, jobTrace, ctxVars>>

\* logging calls made on the job context since its first finishJob call
LateCalls ==
    IF jobTrace = << >> THEN 0 ELSE writes + ends - jobTrace[1].logCalls

\* context.output(line): writer.write(line) on the logger
ExecOutput ==
    /\ writes < MaxExecWrites
    /\ jobTrace = << >> \/ LateCalls < MaxLateCalls
    /\ \E reusedW, reusedC \in BOOLEAN :
         /\ logger' = write(enter(logger), reusedW, reusedC)
         /\ staleOps(logger') <= MaxExecStale
    /\ fbCalls' = emitPageComplete(fbCalls, newlyEmitted(logger, logger'))
    /\ writes' = writes + 1
    /\ lastCall' = "write"
    /\ UNCHANGED ends
    /\ ExecOnly

\* context.end(): writer.end() on the logger
ExecEnd ==
    /\ ends < MaxEnds
    /\ jobTrace = << >> \/ LateCalls < MaxLateCalls
    /\ \E reused \in BOOLEAN :
         /\ logger' = end(enter(logger), reused)
         /\ staleOps(logger') <= MaxExecStale
    /\ fbCalls' = emitPageComplete(fbCalls, newlyEmitted(logger, logger'))
    /\ ends' = ends + 1
    /\ lastCall' = "end"
    /\ UNCHANGED writes
    /\ ExecOnly

\* finishJob(result, callback) on the job context that logs
ExecFinishJob ==
    /\ Len(finishCalls) < MaxExecFinish
    /\ FinishJob

ExecNext ==
    \/ ExecOutput
    \/ ExecEnd
    \/ ExecFinishJob
    \/ DrainComplete
    \/ UpdateComplete

(***************************************************************************)
(* Specifications                                                          *)
(***************************************************************************)
Init == LoggerInit /\ JobInit /\ CtxInit

\* one PagingLogger under any sequence of write, writeError and end calls
LoggerSpecInit == LoggerInit /\ JobInit /\ CtxIdle
LoggerSpec == LoggerSpecInit /\ [][LoggerNext]_vars

\* one JobContext under any sequence of its status methods, with the feedback
\* channel completing drain and updateJobRequest at any later moment
JobSpecInit == LoggerInit /\ JobInit /\ CtxIdle
JobSpec == JobSpecInit /\ [][JobNext]_vars

\* the feedback channel completes every drain and every updateJobRequest it
\* accepted (its callbacks are eventually invoked)
JobFairSpec ==
    JobSpec /\ WF_vars(DrainComplete) /\ WF_vars(UpdateComplete)

\* one Context, constructed with any writers on either platform, under any
\* sequence of its logging methods
ContextSpecInit == LoggerInit /\ JobInit /\ CtxInit
ContextSpec == ContextSpecInit /\ [][CtxNext]_vars

\* one job context: its logging methods, finishJob, and the feedback channel
\* completing drain and updateJobRequest at any later moment
ExecSpecInit == LoggerInit /\ JobInit /\ CtxIdle
ExecSpec == ExecSpecInit /\ [][ExecNext]_vars

Next == LoggerNext \/ JobNext \/ CtxNext \/ ExecNext
Spec == Init /\ [][Next]_vars

(***************************************************************************)
(* Properties of PagingLogger                                              *)
(***************************************************************************)
\* ceil(n / p) for n >= 0, p >= 1
CeilDiv(n, p) == (n + p - 1) \div p

\* the page numbers carried by the notifications, in order
emittedNumbers == [i \in 1..Len(logger.emitted) |-> logger.emitted[i].pageNumber]

\* the line counts of the notified pages, in order
emittedLines == [i \in 1..Len(logger.emitted) |-> logger.emitted[i].lines]

\* the calls so far are N >= 1 writes followed by exactly one end()
WritesThenOneEnd == writes >= 1 /\ ends = 1 /\ lastCall = "end"

\* C1 (as stated): after N >= 1 writes and one end() the number of
\* pageComplete notifications is ceil(N/P), the last page holds N mod P lines
\* (P when P divides N), and the page numbers are exactly 1..ceil(N/P).
C1_PagesAreCeil ==
    WritesThenOneEnd =>
        /\ Len(logger.emitted) = CeilDiv(writes, PAGE_SIZE)
        /\ emittedNumbers = [i \in 1..CeilDiv(writes, PAGE_SIZE) |-> i]
        /\ emittedLines[Len(emittedLines)] =
               (IF writes % PAGE_SIZE = 0 THEN PAGE_SIZE ELSE writes % PAGE_SIZE)

\* C6 (as stated): over any sequence of write, writeError and end calls each
\* page is closed exactly once (one closeSync, one pageComplete per page
\* number) and no write targets a page that has already been closed.
C6_ClosedOnce ==
    /\ \A n \in DOMAIN logger.closeCalls : logger.closeCalls[n] <= 1
    /\ \A i, j \in DOMAIN logger.emitted :
           logger.emitted[i].pageNumber = logger.emitted[j].pageNumber => i = j
    /\ logger.staleWrites = 0

\* C7 (as stated): the page numbers of the pageComplete notifications are
\* strictly increasing, and every page before the current one has been closed
\* and notified (page N is closed and notified before page N+1 is opened).
C7_StrictlyIncreasing ==
    /\ \A i, j \in DOMAIN logger.emitted :
           i < j => logger.emitted[i].pageNumber < logger.emitted[j].pageNumber
    /\ \A n \in 1..(logger.pageCount - 1) :
           /\ logger.pageClosed[n]
           /\ \E i \in DOMAIN logger.emitted : logger.emitted[i].pageNumber = n

\* C8: a logger that has received no write has written no metadata sidecar,
\* opened no page file and emitted no notification, whatever number of end()
\* calls it received; once a write has been made the sidecar exists exactly
\* once and page 1 has been opened.
C8_NothingBeforeFirstWrite ==
    /\ writes = 0 =>
          /\ logger.metadataFiles = 0
          /\ logger.pageLines = << >>
          /\ logger.emitted = << >>
          /\ logger._fd = "unset"
    /\ writes >= 1 =>
          /\ logger.metadataFiles = 1
          /\ Len(logger.pageLines) >= 1

C8_Witness == writes = 0 /\ ends >= 1

\* C9: with PAGE_SIZE = 25, 60 writes followed by end() give exactly three
\* notifications, for pages of 25, 25 and 10 lines, numbered 1, 2, 3.
C9_SixtyLines ==
    (WritesThenOneEnd /\ writes = 60) =>
        /\ PAGE_SIZE = 25
        /\ emittedNumbers = <<1, 2, 3>>
        /\ emittedLines = <<25, 25, 10>>
        /\ logger.pageLines = <<25, 25, 10>>

C9_Witness == WritesThenOneEnd /\ writes = 60 /\ Len(logger.emitted) = 3

(***************************************************************************)
(* Properties of JobContext                                                *)
(***************************************************************************)
\* the positions in fbCalls of the job request updates sent for finishJob call k
UpdatesOf(k) ==
    { i \in DOMAIN fbCalls :
        fbCalls[i].op = "updateJobRequest" /\ fbCalls[i].val.call = k }

\* the positions in fbCalls of the drain requests of finishJob call k
DrainsOf(k) ==
    { i \in DOMAIN fbCalls : fbCalls[i].op = "drain" /\ fbCalls[i].val = k }

DrainCompleted(k) == finishCalls[k].pc \in {"updating", "done"}

\* C2: every finishJob call invokes its callback at most once, and exactly
\* once when updateJobRequest has completed; when the drain reported an error
\* the result carried by the job request update is Failed, whatever result
\* was passed in.
C2_CallbackOnceAndFailedOnDrainError ==
    \A k \in DOMAIN finishCalls :
        /\ Len(finishCalls[k].callbacks) <= 1
        /\ finishCalls[k].pc = "done" <=> Len(finishCalls[k].callbacks) = 1
        /\ (DrainCompleted(k) /\ finishCalls[k].drainErr) =>
               \A i \in UpdatesOf(k) : fbCalls[i].val.result = Failed
        /\ (DrainCompleted(k) /\ ~finishCalls[k].drainErr) =>
               \A i \in UpdatesOf(k) : fbCalls[i].val.result = finishCalls[k].passed

C2_Witness ==
    \E k \in DOMAIN finishCalls :
        /\ finishCalls[k].pc = "done"
        /\ finishCalls[k].drainErr
        /\ finishCalls[k].passed # Failed
        /\ UpdatesOf(k) # {}

StateRank(st) == IF st = Pending THEN 0 ELSE IF st = InProgress THEN 1 ELSE 2

\* C4 (as stated): for every record the state values sent are monotonic in
\* the order Pending, InProgress, Completed: no setState for a record carries
\* a lower state than an earlier setState for the same record.
C4_StatesMonotonic ==
    \A i, j \in DOMAIN fbCalls :
        (/\ i < j
         /\ fbCalls[i].op = "setState"
         /\ fbCalls[j].op = "setState"
         /\ fbCalls[i].id = fbCalls[j].id)
        => StateRank(fbCalls[i].val) <= StateRank(fbCalls[j].val)

\* the job is finished once a finishJob call has run to its callback
JobFinished == \E k \in DOMAIN finishCalls : finishCalls[k].pc = "done"

\* the requests to renew the job lease among the calls made so far
LeaseRenewals == { i \in DOMAIN fbCalls : fbCalls[i].op = "renewJob" }

\* C5 (as stated): in every execution in which the job is never finished a
\* lease renewal is requested infinitely often, and no renewal is requested
\* once the job is finished.
C5_KeepsRenewing ==
    /\ ([]~JobFinished) => []<><<LeaseRenewals' # LeaseRenewals>>_vars
    /\ [][JobFinished => LeaseRenewals' = LeaseRenewals]_vars

(***************************************************************************)
(* Properties of Context                                                   *)
(***************************************************************************)
\* what writer i received in the last call on the context
Delivered(i) ==
    SubSeq(ctx.writers[i].calls,
           Len(ctxCall.before.writers[i].calls) + 1,
           Len(ctx.writers[i].calls))

\* the 'message' events emitted in the last call on the context
Emitted ==
    SubSeq(ctx.messages, Len(ctxCall.before.messages) + 1, Len(ctx.messages))

\* the last call was error, warning, status, info or verbose with a string
LeveledTextCall ==
    /\ ctxCall.method \in {"error", "warning", "status", "info", "verbose"}
    /\ ctxCall.message.isString

\* a persisted line: optional tag, timestamp, text without line endings, EOL
IsFormatted(line) ==
    /\ \E k \in DOMAIN line : line[k] = TS
    /\ Len(line) >= Len(env.EOL)
    /\ SubSeq(line, Len(line) - Len(env.EOL) + 1, Len(line)) = env.EOL

\* C10: for a leveled log call with a textual message, a writer receives the
\* formatted lines if and only if its threshold is >= the level of the
\* message (Error < Warning < Status < Info < Verbose), by writeError for
\* Error and by write otherwise; a writer at Info receives nothing of a
\* Verbose message, a writer at Verbose receives every message.
C10_ThresholdFilter ==
    LeveledTextCall =>
        \A i \in DOMAIN ctx.writers :
            /\ Error < Warning /\ Warning < Status /\ Status < Info /\ Info < Verbose
            /\ Delivered(i) # << >> <=> ctx.writers[i].level >= ctxCall.level
            /\ ctx.writers[i].level >= ctxCall.level =>
                   /\ Len(Delivered(i)) = Len(Emitted)
                   /\ \A k \in DOMAIN Delivered(i) :
                          /\ Delivered(i)[k].method =
                                 (IF ctxCall.level = Error THEN "writeError" ELSE "write")
                          /\ IsFormatted(Delivered(i)[k].line)
            /\ (ctx.writers[i].level = Info /\ ctxCall.level = Verbose) =>
                   Delivered(i) = << >>
            /\ ctx.writers[i].level = Verbose => Delivered(i) # << >>

C10_Witness ==
    /\ LeveledTextCall
    /\ ctxCall.level = Verbose
    /\ \E i, j \in DOMAIN ctx.writers :
           /\ ctx.writers[i].level = Info /\ Delivered(i) = << >>
           /\ ctx.writers[j].level = Verbose /\ Len(Delivered(j)) >= 2

\* C11: hasErrors is false at construction, true after error(), and once
\* true it stays true through every later call (output, warning, info,
\* verbose, status, heading, section, end): no call resets it.
C11_ErrorFlagSticky ==
    /\ ctxCall.n = 0 => ~ctx.hasErrors
    /\ ctxCall.method = "error" => ctx.hasErrors
    /\ ctxCall.before.hasErrors => ctx.hasErrors

C11_Witness ==
    /\ ctxCall.before.hasErrors
    /\ ctxCall.method \in {"warning", "info", "verbose", "status", "heading",
                           "section", "output", "end"}
    /\ ctxCall.message.isString
    /\ ctx.hasErrors

\* the occurrences of the platform line ending in a text
LineBreaks(text, eol) ==
    Cardinality({ i \in 1..(Len(text) - Len(eol) + 1) :
                    SubSeq(text, i, i + Len(eol) - 1) = eol })

\* the severity tag the lines of a message of a level carry
TagOf(level) ==
    IF level = Error THEN <<"[", "Error", "] ">>
    ELSE IF level = Warning THEN <<"[", "Warning", "] ">>
    ELSE << >>

\* C12: for a message logged at a level a writer accepts, the writer receives
\* as many lines as the message holds line-breaks (occurrences of the
\* platform line ending os.EOL) plus one, each line made of its severity tag,
\* a timestamp, the text without line-ending characters and os.EOL; and one
\* 'message' event carrying tag + line is emitted per line.
C12_LinePerLineBreak ==
    LeveledTextCall =>
        LET n == LineBreaks(ctxCall.message.chars, env.EOL) + 1
            tag == TagOf(ctxCall.level)
        IN  /\ Len(Emitted) = n
            /\ \A k \in DOMAIN Emitted :
                   /\ SubSeq(Emitted[k], 1, Len(tag)) = tag
                   /\ \A c \in DOMAIN Emitted[k] : Emitted[k][c] \notin {CR, LF}
            /\ \A i \in DOMAIN ctx.writers :
                   ctx.writers[i].level >= ctxCall.level =>
                       /\ Len(Delivered(i)) = n
                       /\ \A k \in DOMAIN Delivered(i) :
                              Delivered(i)[k].line =
                                  tag \o <<TS, ": ">>
                                      \o SubSeq(Emitted[k], Len(tag) + 1, Len(Emitted[k]))
                                      \o env.EOL

C12_Witness ==
    /\ LeveledTextCall
    /\ ctxCall.level = Warning
    /\ LineBreaks(ctxCall.message.chars, env.EOL) = 1
    /\ \E i \in DOMAIN ctx.writers :
           /\ ctx.writers[i].level = Warning
           /\ Len(Delivered(i)) = 2
    /\ Len(Emitted) = 2

\* C13 (as stated): a leveled log call whose message is not a string
\* delivers nothing to any writer, emits no 'message' event, leaves every
\* writer as it was and returns normally, without throwing.
C13_NonTextDropped ==
    (/\ ctxCall.method \in {"error", "warning", "status", "info", "verbose"}
     /\ ~ctxCall.message.isString)
    => /\ ctx.writers = ctxCall.before.writers
       /\ ctx.messages = ctxCall.before.messages
       /\ ~ctx.threw

\* C16 (as stated): a heading or section call emits nothing when no writer
\* has a threshold >= Status; otherwise the decorated message (the message
\* between two line endings of decoration: its line-breaks plus three lines)
\* goes through the Info-level formatting path exactly once, so every writer
\* that accepts Info receives each decorated line once, however many writers
\* are registered.
C16_DecoratedOnce ==
    ctxCall.method \in {"heading", "section"} =>
        LET n == LineBreaks(coerce(ctxCall.message), env.EOL) + 3 IN
        IF \A i \in DOMAIN ctx.writers : ctx.writers[i].level < Status
        THEN /\ ctx.writers = ctxCall.before.writers
             /\ Emitted = << >>
        ELSE /\ Len(Emitted) = n
             /\ \A i \in DOMAIN ctx.writers :
                    Len(Delivered(i)) = (IF ctx.writers[i].level >= Info THEN n ELSE 0)

\* C15 (as stated): every page a PagingLogger opens has at least one line
\* written to it before it is closed: no pageComplete notification is
\* emitted for a page with zero lines.
C15_NoEmptyPage ==
    /\ \A i \in DOMAIN logger.emitted : logger.emitted[i].lines >= 1
    /\ \A n \in DOMAIN logger.pageClosed :
           logger.pageClosed[n] => logger.pageLines[n] >= 1

\* the calls of jobTrace made for record id
CallsOn(id) == SelectSeq(jobTrace, LAMBDA c : c.id = id)

\* the values carried by the calls feedback.<op>(id, value), in order
Sent(op, id) ==
    LET hits == SelectSeq(fbCalls, LAMBDA e : e.op = op /\ e.id = id)
    IN  [i \in DOMAIN hits |-> hits[i].val]

\* C14: when the calls made for a task id are registerPendingTask,
\* setTaskStarted and setTaskResult(r), in that order, the states sent for
\* the id are Pending, InProgress, Completed, the result sent is r and a
\* finish time has been sent.
C14_TaskLifecycle ==
    \A id \in Tasks :
        LET calls == CallsOn(id) IN
        (/\ Len(calls) = 3
         /\ calls[1].method = "registerPendingTask"
         /\ calls[2].method = "setTaskStarted"
         /\ calls[3].method = "setTaskResult")
        => /\ Sent("setState", id) = <<Pending, InProgress, Completed>>
           /\ Sent("setResult", id) = <<calls[3].result>>
           /\ Len(Sent("setFinishTime", id)) = 1
           /\ Len(Sent("setStartTime", id)) = 1

C14_Witness ==
    \E id \in Tasks :
        /\ Len(CallsOn(id)) = 3
        /\ CallsOn(id)[1].method = "registerPendingTask"
        /\ CallsOn(id)[2].method = "setTaskStarted"
        /\ CallsOn(id)[3].method = "setTaskResult"
        /\ CallsOn(id)[3].result = Failed
        /\ Sent("setResult", id) = <<Failed>>

\* C18: registerPendingTask, setTaskStarted and setTaskResult called for
\* task id X make calls on the feedback channel for record X only, except
\* that setTaskStarted also sets the current operation of the job record;
\* they send nothing else for the job record and nothing for another task.
C18_TaskCallsFrame ==
    \A n \in DOMAIN jobTrace :
        jobTrace[n].method \in {"registerPendingTask", "setTaskStarted", "setTaskResult"}
        => \A i \in (jobTrace[n].from + 1)..jobTrace[n].to :
               \/ fbCalls[i].id = jobTrace[n].id
               \/ /\ jobTrace[n].method = "setTaskStarted"
                  /\ fbCalls[i].id = jobId
                  /\ fbCalls[i].op = "setCurrentOperation"
                  /\ fbCalls[i].val = <<"Starting ", jobTrace[n].name>>

C18_Witness ==
    \E n, m \in DOMAIN jobTrace :
        /\ m < n
        /\ jobTrace[n].method = "setTaskStarted"
        /\ jobTrace[m].method = "registerPendingTask"
        /\ jobTrace[m].id # jobTrace[n].id
        /\ \E i \in (jobTrace[n].from + 1)..jobTrace[n].to : fbCalls[i].id = jobId

\* C19: once a finishJob call has completed, the result that call recorded
\* on the job's timeline record with setResult equals the result carried by
\* its job request update, whether the drain succeeded or failed.
C19_RecordEqualsReported ==
    \A k \in DOMAIN finishCalls :
        finishCalls[k].pc = "done"
        => \A i \in UpdatesOf(k) :
               fbCalls[i].val.result = Sent("setResult", jobId)[k]

\* the page infos handed to feedback.queueLogPage by the first n calls on
\* the feedback channel, in order
QueuedPages(n) ==
    LET hits == SelectSeq(SubSeq(fbCalls, 1, n), LAMBDA e : e.op = "queueLogPage")
    IN  [i \in DOMAIN hits |-> hits[i].val]

\* C17: every 'pageComplete' notification of the execution context's logger
\* has led to exactly one queueLogPage call carrying the same page info: the
\* pages queued are the pages notified, in the same order.
C17_QueuedEqualsEmitted == QueuedPages(Len(fbCalls)) = logger.emitted

C17_Witness ==
    /\ Len(logger.emitted) >= 2
    /\ QueuedPages(Len(fbCalls)) = logger.emitted
    /\ \E k \in DOMAIN finishCalls : finishCalls[k].pc = "done"

\* the finishJob calls of jobTrace
FinishJobCalls == { n \in DOMAIN jobTrace : jobTrace[n].method = "finishJob" }

\* C20: when finishJob requests the drain, no page of the logger is open:
\* every line written before is in a page already queued.
C20_NoOpenPageAtDrain ==
    \A n \in FinishJobCalls :
        /\ ~jobTrace[n].pageOpen
        /\ jobTrace[n].openLines = 0

\* C20 (amended): when finishJob requests the drain, the pages queued so far
\* are exactly the pages the logger had closed and notified by then, and
\* finishJob itself queues no page; the page open at that moment stays open.
C20_ClosedPagesQueuedAtDrain ==
    \A n \in FinishJobCalls :
        /\ QueuedPages(jobTrace[n].from)
             = SubSeq(logger.emitted, 1, jobTrace[n].emitted)
        /\ QueuedPages(jobTrace[n].to) = QueuedPages(jobTrace[n].from)

C20_Witness ==
    \E n \in FinishJobCalls :
        /\ jobTrace[n].emitted >= 1
        /\ jobTrace[n].pageOpen
        /\ jobTrace[n].openLines >= 1
        /\ \E k \in DOMAIN finishCalls : finishCalls[k].pc = "done"

====
